---- MODULE Spec2Model ----
(***************************************************************************)
(* PharmaRAG retrieval core: the module-level vector store of              *)
(* server/src/services/vectorStore.ts, the document catalog, the upload    *)
(* path (processUpload), the DELETE /api/documents/:id route and the RAG   *)
(* query (ragEngine.query).                                                *)
(*                                                                         *)
(* Node runs every request on one thread; requests interleave only where   *)
(* a handler awaits a provider call (embedding, generation).  Each action  *)
(* below is the code a request runs between two such awaits: the           *)
(* continuation up to the next provider call, or to the response.          *)
(*                                                                         *)
(* HNSWLib objects are heap objects: vectorStoreInstance is a reference,   *)
(* and a request that has read the reference keeps using that object even  *)
(* when the reference is reassigned meanwhile.  Every store object is      *)
(* created by exactly one request (the first addDocuments, or a rebuild    *)
(* in deleteByDocumentId), so a store object is named by the request that  *)
(* created it.  An object no reference reaches any more is garbage and is  *)
(* dropped from the heap; a request's locals die when it returns.          *)
(*                                                                         *)
(* Three further components are modelled next to the server, each with     *)
(* variables and a specification of its own: the placeholder-based vector  *)
(* store module with its getInstance (SpecSingleton), the history that     *)
(* query puts into the prompt (SpecHistory), and the client's chat panel   *)
(* (SpecClient).                                                           *)
(***************************************************************************)
EXTENDS Integers, Sequences, FiniteSets, TLC

\* ---------------------------------------------------------------- bounds
NumDocs == 3
MaxChunks == 2
NumDeleters == 2
NumChats == 1
NumCallers == 3
MaxHistory == 12
MaxQuestionLen == 3
MaxMessages == 6
MaxNewChats == 3

\* ------------------------------------------------------ program constants
\* k of the enumeration query in deleteByDocumentId
EnumK == 10000
\* k of the retrieval query in ragEngine.query
QueryK == 4
\* number of history messages query keeps: conversationHistory.slice(-10)
HistoryWindow == 10

\* -------------------------------------------------------------- processes
\* One upload request per document id (processUpload draws a fresh uuid).
Uploads == 1..NumDocs
Deleters == (NumDocs + 1)..(NumDocs + NumDeleters)
Chats == (NumDocs + NumDeleters + 1)..(NumDocs + NumDeleters + NumChats)
Procs == Uploads \cup Deleters \cup Chats
\* Requests that create HNSWLib objects
Builders == Uploads \cup Deleters
NULL == 0

\* Query texts: the enumeration query '' and the chat questions.
EmptyQuery == 0
Questions == {1}

\* Calls of the placeholder-based vector store module; a store object of
\* that module is created by initializeVectorStore (named by the call that
\* ran it) or by a rebuild in deleteByDocumentId (named NumCallers + call).
Callers == 1..NumCallers
SingletonStoreIds == 1..(2 * NumCallers)

VARIABLES
  vectorStoreInstance, \* the module-level reference: NULL or a store object
  isInitialized,       \* the module-level flag
  stores,              \* heap: store object -> its records, in insertion order
  documentStore,       \* catalog: document id -> chunkCount
  pc,                  \* each request's position
  docs,                \* upload: the batch handed to addDocuments
  branch,              \* upload: the branch addDocuments took
  ref,                 \* the store object the request's library call runs on
  target,              \* delete: req.params.id
  remainingDocs,       \* delete: the filtered enumeration
  deletedCount,        \* delete: the value returned
  question,            \* chat: the trimmed question
  topK,                \* search: the k handed to similaritySearch
  relevantDocs,        \* chat: the result of similaritySearch
  answer,              \* chat: ChatResponse.answer
  sources,             \* chat: ChatResponse.sources
  llmCalled,           \* chat: whether the generation model was invoked
  requestQuestion,     \* chat: req.body.question
  queryArg,            \* chat: the string handed to query
  scoredDocs,          \* search: the result of similaritySearchWithScore
  statusCode,          \* the HTTP status of the request's response; 0: none yet
  seenDeleted,         \* upload, chat: the documents whose deletion had
                       \* completed when the request arrived (history)
  \* --- the placeholder-based vector store module (getInstance)
  singletonInstance,     \* its module-level vectorStoreInstance
  initializationPromise, \* "null", or the state of the promise it holds
  singletonStores,       \* heap: store object -> its records
  callPc,                \* each call's position
  callOp,                \* the function called
  callDocs,              \* addDocuments: docs
  callTarget,            \* deleteByDocumentId: documentId
  callStore,             \* the call's local `store`
  callPath,              \* the branch getInstance took for the call
  callRemaining,         \* deleteByDocumentId: the documents of the rebuild
  callDeleted,           \* deleteByDocumentId: deletedCount
  callResults,           \* similaritySearch: the value returned
  initRuns,              \* number of calls of initializeVectorStore (history)
  \* --- the history query puts into the prompt
  conversationHistory,   \* the argument of query
  promptHistory,         \* the lines that replace {history} in the prompt
  historyFormatted,      \* whether query has built the prompt
  \* --- the chat panel of the client (ChatInterface)
  messages,              \* the conversation shown
  isLoading,             \* a request is awaited
  pendingRequest,        \* the requests in flight (at most one): what was sent
  conversation           \* number of "New Chat" clicks so far (history)

singletonVars == <<singletonInstance, initializationPromise, singletonStores,
                   callPc, callOp, callDocs, callTarget, callStore, callPath,
                   callRemaining, callDeleted, callResults, initRuns>>

historyVars == <<conversationHistory, promptHistory, historyFormatted>>

clientVars == <<messages, isLoading, pendingRequest, conversation>>

\* The variables of the components the server's request handlers leave alone.
auxVars == <<singletonVars, historyVars, clientVars>>

\* The variables of the server.
serverVars == <<vectorStoreInstance, isInitialized, stores, documentStore, pc, docs,
                branch, ref, target, remainingDocs, deletedCount, question, topK,
                relevantDocs, answer, sources, llmCalled, requestQuestion,
                queryArg, scoredDocs, statusCode, seenDeleted>>

vars == <<serverVars, auxVars>>

\* The variables outside each component.
outsideSingleton == <<serverVars, historyVars, clientVars>>
outsideHistory == <<serverVars, singletonVars, clientVars>>
outsideClient == <<serverVars, singletonVars, historyVars>>

indexVars == <<vectorStoreInstance, isInitialized, stores>>
uploadVars == <<docs, branch>>
deleteVars == <<target, remainingDocs, deletedCount>>
requestVars == <<requestQuestion, queryArg>>
chatVars == <<question, topK, relevantDocs, answer, sources, llmCalled,
              requestVars, scoredDocs>>

\* ------------------------------------------------------------------ data
\* The page of chunk i of an upload: the chunker yields two chunks per page.
PageOf(i) == (i \div 2) + 1

\* req.file.originalname of the upload that got document id d: the name is
\* the client's, so two documents may carry the same one (here 1 and 3 do).
FilenameOf(d) == ((d - 1) % 2) + 1

\* The LangChain Document of chunk i of document d.
MakeDoc(d, i) ==
  [documentId |-> d, chunkIndex |-> i, page |-> PageOf(i), source |-> FilenameOf(d)]

\* The batch processUpload builds for a document of n chunks.
LangchainDocs(d, n) == [j \in 1..n |-> MakeDoc(d, j - 1)]

SeqToSet(s) == {s[j] : j \in 1..Len(s)}

\* Number of records of document d in a sequence of records.
CountOf(s, d) == Cardinality({j \in 1..Len(s) : s[j].documentId = d})

\* Distance of a record to a query text in the embedding space.  The
\* embedding model is a fixed function of the text; this is one such
\* function, with three distance values.  Two records at the same distance
\* from one query need not be at the same distance from another.
Dist(q, r) == ((q + 1) * r.documentId + 2 * r.chunkIndex) % 3

\* The records of s at distance dv from q, in the order of s.
AtDist(q, s, dv) == SelectSeq(s, LAMBDA r : Dist(q, r) = dv)

\* s by ascending distance to q; records at the same distance keep the
\* order they have in s (the order they were added to the store).
SortByDist(q, s) == AtDist(q, s, 0) \o AtDist(q, s, 1) \o AtDist(q, s, 2)

Min(a, b) == IF a < b THEN a ELSE b

\* HNSWLib.similaritySearch(query, k) on a store holding `recs`: the k
\* nearest records, nearest first; k is lowered to the number stored.  The
\* wrapper hands k to the store unchecked; a store asked for k <= 0 has no
\* record to return (or throws: see SearchFail).
StoreSearch(recs, q, k) ==
  IF k <= 0 THEN <<>> ELSE SubSeq(SortByDist(q, recs), 1, Min(k, Len(recs)))

\* A search that empties the store it ran on.
SearchedStoreEmptied(recs) == <<>>

\* The records of a store after its similaritySearch or
\* similaritySearchWithScore has run on it: a search reads the store.
SearchedStore(recs) == recs

\* HNSWLib.similaritySearchWithScore(query, k): the records of
\* similaritySearch, each paired with its distance to the query.
StoreSearchWithScore(recs, q, k) ==
  LET res == StoreSearch(recs, q, k)
  IN [j \in 1..Len(res) |-> <<res[j], Dist(q, res[j])>>]

\* A store seeded with a placeholder record before the documents.
Placeholder == [documentId |-> NULL, chunkIndex |-> 0, page |-> 1, source |-> NULL]
FromDocumentsWithPlaceholder(batch) == <<Placeholder>> \o batch

\* HNSWLib.fromDocuments(docs, embeddings): a new store holding docs.
FromDocuments(batch) == batch

\* store.addDocuments(docs): docs appended to the store's records.
StoreAdd(recs, batch) == recs \o batch

\* The heap after a step: the objects st that the module-level reference
\* inst or a request's local reference rf still reaches.
Collect(st, inst, rf) ==
  [b \in Builders |->
     IF b = inst \/ \E p \in Procs : rf[p] = b THEN st[b] ELSE <<>>]

\* `x = await f()` with the assignment made although the promise rejected.
AssignOnReject(old, new, rejected) == new

\* `x = await f()`: x takes the awaited value when the promise fulfils and
\* keeps its value when it rejects (the assignment is never reached).
AwaitAssign(old, new, rejected) == IF rejected THEN old ELSE new

\* The statement after an `await` run although the promise rejected.
RunAfterReject(old, new, rejected) == new

\* A statement that follows `await f()` in the same block: it runs, taking
\* the state from old to new, when the promise fulfils, and is skipped when
\* the promise rejects (control leaves the block).
AfterAwait(old, new, rejected) == IF rejected THEN old ELSE new

\* ------------------------------------------------------- request values
\* A value of the JSON body's `question` field: absent, a number, an object
\* or array, or a string (its characters).
Chars == {" ", "a"}
Strings == UNION {[1..n -> Chars] : n \in 0..MaxQuestionLen}
Undefined == [type |-> "undefined", value |-> 0, chars |-> <<>>]
NumberValue(n) == [type |-> "number", value |-> n, chars |-> <<>>]
ObjectValue == [type |-> "object", value |-> 0, chars |-> <<>>]
StringValue(s) == [type |-> "string", value |-> 0, chars |-> s]
RequestQuestions ==
  {Undefined, NumberValue(0), NumberValue(7), ObjectValue}
    \cup {StringValue(s) : s \in Strings}

\* `!v`: undefined, 0 and '' are falsy; objects, arrays and other numbers
\* and strings are not.
Falsy(v) ==
  \/ v.type = "undefined"
  \/ v.type = "number" /\ v.value = 0
  \/ v.type = "string" /\ v.chars = <<>>

\* String.prototype.trim: the string without its leading and trailing
\* white space.
RECURSIVE TrimStart(_)
TrimStart(s) ==
  IF s # <<>> /\ Head(s) = " " THEN TrimStart(Tail(s)) ELSE s
RECURSIVE TrimEnd(_)
TrimEnd(s) ==
  IF s # <<>> /\ s[Len(s)] = " " THEN TrimEnd(SubSeq(s, 1, Len(s) - 1)) ELSE s
Trim(s) == TrimEnd(TrimStart(s))

\* The text with id q, and the id of a text: the embedding model maps
\* texts of one length to one point.
TextOf(q) == [j \in 1..q |-> "a"]
TextId(s) == Len(s)

\* The validation left out.
ValidationSkipped(v) == FALSE

\* `!question || typeof question !== 'string' || question.trim() === ''`
InvalidQuestion(v) ==
  \/ Falsy(v)
  \/ v.type # "string"
  \/ Trim(v.chars) = <<>>

\* ---------------------------------------------------------------- errors
\* An error object: its class, and whether its message contains the text
\* 'AI service'.
GenericError == [name |-> "Error", mentionsAIService |-> FALSE]
NotFoundError == [name |-> "NotFoundError", mentionsAIService |-> FALSE]
ValidationError == [name |-> "ValidationError", mentionsAIService |-> FALSE]
LLMError(err) == [name |-> "LLMError", mentionsAIService |-> err.mentionsAIService]

\* What a provider call can throw: an Error whose message is the provider's.
ProviderErrors == {[name |-> "Error", mentionsAIService |-> b] : b \in BOOLEAN}

\* query's catch around llm.invoke: the error is replaced by
\* Error('Failed to generate response from AI service').
GenerationError == [name |-> "Error", mentionsAIService |-> TRUE]

\* The chat route's catch: what it hands to next().
ChatRouteCatch(err) ==
  IF err.name = "ValidationError" THEN err
  ELSE IF err.mentionsAIService THEN LLMError(err)
  ELSE err

\* errorHandler: the status code of the response for an error.
ErrorHandler(err) ==
  CASE err.name = "ValidationError" -> 400
    [] err.name = "NotFoundError" -> 404
    [] err.name = "LLMError" -> 503
    [] err.name = "MulterError" -> 400
    [] OTHER -> 500

\* The guard left out.
GuardSkipped == FALSE

\* The guard `!isInitialized || !vectorStoreInstance`.
StoreIsEmpty == ~isInitialized \/ vectorStoreInstance = NULL

\* ------------------------------------------------------------------ Init
\* The placeholder-based module after load: no instance, no promise.
SingletonInit ==
  /\ singletonInstance = NULL
  /\ initializationPromise = "null"
  /\ singletonStores = [b \in SingletonStoreIds |-> <<>>]
  /\ callPc = [c \in Callers |-> "idle"]
  /\ callOp = [c \in Callers |-> "none"]
  /\ callDocs = [c \in Callers |-> <<>>]
  /\ callTarget = [c \in Callers |-> NULL]
  /\ callStore = [c \in Callers |-> NULL]
  /\ callPath = [c \in Callers |-> "none"]
  /\ callRemaining = [c \in Callers |-> <<>>]
  /\ callDeleted = [c \in Callers |-> 0]
  /\ callResults = [c \in Callers |-> <<>>]
  /\ initRuns = 0

\* No query has been made.
HistoryInit ==
  /\ conversationHistory = <<>>
  /\ promptHistory = <<>>
  /\ historyFormatted = FALSE

\* The chat panel after mount: useState([]) and useState(false).
ClientInit ==
  /\ messages = <<>>
  /\ isLoading = FALSE
  /\ pendingRequest = <<>>
  /\ conversation = 0

\* The server after start.
ServerInit ==
  /\ vectorStoreInstance = NULL
  /\ isInitialized = FALSE
  /\ stores = [b \in Builders |-> <<>>]
  /\ documentStore = <<>>
  /\ pc = [p \in Procs |-> "idle"]
  /\ docs = [p \in Uploads |-> <<>>]
  /\ branch = [p \in Uploads |-> "none"]
  /\ ref = [p \in Procs |-> NULL]
  /\ target = [p \in Deleters |-> NULL]
  /\ remainingDocs = [p \in Deleters |-> <<>>]
  /\ deletedCount = [p \in Deleters |-> 0]
  /\ question = [p \in Chats |-> EmptyQuery]
  /\ topK = [p \in Chats |-> QueryK]
  /\ relevantDocs = [p \in Chats |-> <<>>]
  /\ answer = [p \in Chats |-> "none"]
  /\ sources = [p \in Chats |-> <<>>]
  /\ llmCalled = [p \in Chats |-> FALSE]
  /\ requestQuestion = [p \in Chats |-> Undefined]
  /\ queryArg = [p \in Chats |-> <<>>]
  /\ scoredDocs = [p \in Chats |-> <<>>]
  /\ statusCode = [p \in Procs |-> 0]
  /\ seenDeleted = [p \in Uploads \cup Chats |-> {}]

Init ==
  /\ ServerInit
  /\ SingletonInit
  /\ HistoryInit
  /\ ClientInit

\* --------------------------------------------------------------- catalog
\* documentStore.set(metadata.id, metadata)
AddDocument(cat, d, n) == [x \in DOMAIN cat \cup {d} |-> IF x = d THEN n ELSE cat[x]]

\* documentStore.delete(id)
DeleteDocument(cat, d) == [x \in DOMAIN cat \ {d} |-> cat[x]]

\* The catalog lookup answering for every id.
LookupSkipped(cat, d) == TRUE

\* documentStore.get(id) !== undefined
HasDocument(cat, d) == d \in DOMAIN cat

\* Documents whose DELETE request has completed.
DeletedDocs == {target[d] : d \in {x \in Deleters : pc[x] = "done"}}

\* ---------------------------------------------------------------- upload
\* processUpload up to the provider call inside addDocuments.  Document ids
\* are fresh uuids: ids are handed out in order.
UploadStart(p, n) ==
  /\ pc[p] = "idle"
  /\ \A o \in Uploads : o < p => pc[o] # "idle"
  /\ docs' = [docs EXCEPT ![p] = LangchainDocs(p, n)]
  /\ seenDeleted' = [seenDeleted EXCEPT ![p] = DeletedDocs]
  /\ IF StoreIsEmpty
       THEN \* first time: initializeWithDocuments(docs)
            /\ branch' = [branch EXCEPT ![p] = "init"]
            /\ pc' = [pc EXCEPT ![p] = "init_build"]
            /\ UNCHANGED ref
       ELSE \* already initialized: vectorStoreInstance.addDocuments(docs)
            /\ branch' = [branch EXCEPT ![p] = "add"]
            /\ pc' = [pc EXCEPT ![p] = "add_embed"]
            /\ ref' = [ref EXCEPT ![p] = vectorStoreInstance]
  /\ UNCHANGED <<indexVars, documentStore, deleteVars, chatVars, statusCode>>
  /\ UNCHANGED auxVars

\* initializeWithDocuments returned: publish the new store, then register.
UploadInitDone(p) ==
  /\ pc[p] = "init_build"
  /\ vectorStoreInstance' = AwaitAssign(vectorStoreInstance, p, FALSE)
  /\ isInitialized' = TRUE
  /\ stores' = Collect([stores EXCEPT ![p] = FromDocuments(docs[p])],
                       vectorStoreInstance', ref)
  /\ documentStore' = AfterAwait(documentStore,
                                 AddDocument(documentStore, p, Len(docs[p])), FALSE)
  /\ pc' = [pc EXCEPT ![p] = "done"]
  /\ statusCode' = [statusCode EXCEPT ![p] = 201]
  /\ UNCHANGED <<uploadVars, ref, deleteVars, chatVars, seenDeleted>>
  /\ UNCHANGED auxVars

\* vectorStoreInstance.addDocuments returned: the object it was called on
\* holds the batch, then register.
UploadAddDone(p) ==
  /\ pc[p] = "add_embed"
  /\ ref' = [ref EXCEPT ![p] = NULL]
  /\ stores' = Collect([stores EXCEPT ![ref[p]] = StoreAdd(stores[ref[p]], docs[p])],
                       vectorStoreInstance, ref')
  /\ documentStore' = AfterAwait(documentStore,
                                 AddDocument(documentStore, p, Len(docs[p])), FALSE)
  /\ pc' = [pc EXCEPT ![p] = "done"]
  /\ statusCode' = [statusCode EXCEPT ![p] = 201]
  /\ UNCHANGED <<vectorStoreInstance, isInitialized, uploadVars, deleteVars,
                 chatVars, seenDeleted>>
  /\ UNCHANGED auxVars

\* The embedding call or the build threw: the error leaves addDocuments
\* and processUpload, and the upload route hands it to errorHandler.
UploadFail(p) ==
  /\ pc[p] \in {"init_build", "add_embed"}
  /\ pc' = [pc EXCEPT ![p] = "failed"]
  /\ statusCode' = [statusCode EXCEPT ![p] = ErrorHandler(GenericError)]
  /\ vectorStoreInstance' =
       IF pc[p] = "init_build"
         THEN AwaitAssign(vectorStoreInstance, NULL, TRUE)
         ELSE vectorStoreInstance
  /\ ref' = [ref EXCEPT ![p] = NULL]
  /\ stores' = Collect(stores, vectorStoreInstance', ref')
  /\ documentStore' = AfterAwait(documentStore,
                                 AddDocument(documentStore, p, Len(docs[p])), TRUE)
  /\ UNCHANGED <<isInitialized, uploadVars, deleteVars, chatVars, seenDeleted>>
  /\ UNCHANGED auxVars

\* --------------------------------------------------------------- delete
\* A filter that drops only the first chunk of the document.
DropFirstChunkOnly(allDocs, documentId) ==
  SelectSeq(allDocs, LAMBDA r : ~(r.documentId = documentId /\ r.chunkIndex = 0))

\* allDocs.filter(doc => doc.metadata.documentId !== documentId)
RemainingDocs(allDocs, documentId) ==
  SelectSeq(allDocs, LAMBDA r : r.documentId # documentId)

\* DELETE /api/documents/:id up to the first provider call: the catalog
\* lookup, then deleteByDocumentId up to the enumeration query.
DeleteStart(p, d) ==
  /\ pc[p] = "idle"
  /\ \A o \in Deleters : o < p => pc[o] # "idle"
  /\ target' = [target EXCEPT ![p] = d]
  /\ IF ~HasDocument(documentStore, d)
       THEN \* NotFoundError
            /\ pc' = [pc EXCEPT ![p] = "notfound"]
            /\ statusCode' = [statusCode EXCEPT ![p] = ErrorHandler(NotFoundError)]
            /\ UNCHANGED <<ref, deletedCount, documentStore>>
       ELSE IF StoreIsEmpty
       THEN \* nothing to delete: return 0, then documentStore.delete
            /\ deletedCount' = [deletedCount EXCEPT ![p] = 0]
            /\ documentStore' = DeleteDocument(documentStore, d)
            /\ pc' = [pc EXCEPT ![p] = "done"]
            /\ statusCode' = [statusCode EXCEPT ![p] = 200]
            /\ UNCHANGED ref
       ELSE /\ ref' = [ref EXCEPT ![p] = vectorStoreInstance]
            /\ pc' = [pc EXCEPT ![p] = "del_enum"]
            /\ UNCHANGED <<deletedCount, documentStore, statusCode>>
  /\ UNCHANGED <<indexVars, uploadVars, remainingDocs, chatVars, seenDeleted>>
  /\ UNCHANGED auxVars

\* The enumeration query returned: filter, count, and either start the
\* rebuild or reset to the uninitialized state and finish the request.
DeleteEnum(p) ==
  /\ pc[p] = "del_enum"
  /\ LET allDocs == StoreSearch(stores[ref[p]], EmptyQuery, EnumK)
         remaining == RemainingDocs(allDocs, target[p])
     IN /\ remainingDocs' = [remainingDocs EXCEPT ![p] = remaining]
        /\ deletedCount' = [deletedCount EXCEPT ![p] = Len(allDocs) - Len(remaining)]
        /\ IF Len(remaining) > 0
             THEN /\ pc' = [pc EXCEPT ![p] = "del_build"]
                  /\ UNCHANGED <<vectorStoreInstance, isInitialized, documentStore,
                                 statusCode>>
             ELSE /\ vectorStoreInstance' = NULL
                  /\ isInitialized' = FALSE
                  /\ documentStore' = DeleteDocument(documentStore, target[p])
                  /\ pc' = [pc EXCEPT ![p] = "done"]
                  /\ statusCode' = [statusCode EXCEPT ![p] = 200]
  /\ ref' = [ref EXCEPT ![p] = NULL]
  /\ stores' = Collect(stores, vectorStoreInstance', ref')
  /\ UNCHANGED <<uploadVars, target, chatVars, seenDeleted>>
  /\ UNCHANGED auxVars

\* HNSWLib.fromDocuments(remainingDocs) returned: publish the rebuilt store,
\* return deletedCount, then documentStore.delete.
DeleteBuild(p) ==
  /\ pc[p] = "del_build"
  /\ vectorStoreInstance' = AwaitAssign(vectorStoreInstance, p, FALSE)
  /\ statusCode' = [statusCode EXCEPT ![p] = 200]
  /\ stores' = Collect([stores EXCEPT ![p] = FromDocuments(remainingDocs[p])],
                       vectorStoreInstance', ref)
  /\ remainingDocs' = [remainingDocs EXCEPT ![p] = <<>>]
  /\ documentStore' = AfterAwait(documentStore,
                                 DeleteDocument(documentStore, target[p]), FALSE)
  /\ pc' = [pc EXCEPT ![p] = "done"]
  /\ UNCHANGED <<isInitialized, uploadVars, ref, target, deletedCount,
                 chatVars, seenDeleted>>
  /\ UNCHANGED auxVars

\* The enumeration or the rebuild threw: the error leaves
\* deleteByDocumentId and the route hands it to errorHandler.
DeleteFail(p) ==
  /\ pc[p] \in {"del_enum", "del_build"}
  /\ pc' = [pc EXCEPT ![p] = "failed"]
  /\ statusCode' = [statusCode EXCEPT ![p] = ErrorHandler(GenericError)]
  /\ vectorStoreInstance' =
       IF pc[p] = "del_build"
         THEN AwaitAssign(vectorStoreInstance, NULL, TRUE)
         ELSE vectorStoreInstance
  /\ ref' = [ref EXCEPT ![p] = NULL]
  /\ remainingDocs' = [remainingDocs EXCEPT ![p] = <<>>]
  /\ stores' = Collect(stores, vectorStoreInstance', ref')
  /\ documentStore' = AfterAwait(documentStore,
                                 DeleteDocument(documentStore, target[p]), TRUE)
  /\ UNCHANGED <<isInitialized, uploadVars, target, deletedCount, chatVars,
                 seenDeleted>>
  /\ UNCHANGED auxVars

\* ----------------------------------------------------------------- chat
\* A key that tells the chunks of a page apart.
SourceKeyWithChunk(r) == <<r.source, r.page, r.chunkIndex>>

\* Key `${source}-${page}` of the sourceMap.
SourceKey(r) == <<r.source, r.page>>

\* extractSources: one Source per key, in order of first occurrence.
RECURSIVE ExtractSources(_)
ExtractSources(rs) ==
  IF rs = <<>> THEN <<>>
  ELSE LET front == ExtractSources(SubSeq(rs, 1, Len(rs) - 1))
           last == rs[Len(rs)]
       IN IF \E j \in 1..(Len(rs) - 1) : SourceKey(rs[j]) = SourceKey(last)
            THEN front
            ELSE Append(front, [document |-> last.source, page |-> last.page])

\* The empty-result check left out.
NoShortCircuit(rd) == FALSE

\* `relevantDocs.length === 0`
NoRelevantDocs(rd) == Len(rd) = 0

\* query after similaritySearch returned rd: the fixed message with no
\* sources, or the prompt is built and the generation model is called.
AfterSearch(p, rd) ==
  /\ relevantDocs' = [relevantDocs EXCEPT ![p] = rd]
  /\ IF NoRelevantDocs(rd)
       THEN /\ answer' = [answer EXCEPT ![p] = "NO_DOCUMENTS_MESSAGE"]
            /\ sources' = [sources EXCEPT ![p] = <<>>]
            /\ pc' = [pc EXCEPT ![p] = "done"]
            /\ statusCode' = [statusCode EXCEPT ![p] = 200]
            /\ UNCHANGED llmCalled
       ELSE /\ llmCalled' = [llmCalled EXCEPT ![p] = TRUE]
            /\ pc' = [pc EXCEPT ![p] = "llm"]
            /\ UNCHANGED <<answer, sources, statusCode>>

\* query(question, conversationHistory) up to the first provider call.
QueryStart(p, q) ==
  /\ question' = [question EXCEPT ![p] = q]
  /\ topK' = [topK EXCEPT ![p] = QueryK]
  /\ seenDeleted' = [seenDeleted EXCEPT ![p] = DeletedDocs]
  /\ IF StoreIsEmpty
       THEN \* similaritySearch returns [] without a provider call
            /\ AfterSearch(p, <<>>)
            /\ UNCHANGED ref
       ELSE IF vectorStoreInstance = NULL
       THEN \* a method call on null throws
            /\ pc' = [pc EXCEPT ![p] = "failed"]
            /\ statusCode' = [statusCode EXCEPT ![p] =
                                ErrorHandler(ChatRouteCatch(GenericError))]
            /\ UNCHANGED <<ref, relevantDocs, answer, sources, llmCalled>>
       ELSE /\ ref' = [ref EXCEPT ![p] = vectorStoreInstance]
            /\ pc' = [pc EXCEPT ![p] = "search_embed"]
            /\ UNCHANGED <<relevantDocs, answer, sources, llmCalled, statusCode>>

\* POST /api/chat with `v` as the body's question, up to the first provider
\* call: the validation, then query with the trimmed question.
ChatStart(p, v) ==
  /\ pc[p] = "idle"
  /\ \A o \in Chats : o < p => pc[o] # "idle"
  /\ requestQuestion' = [requestQuestion EXCEPT ![p] = v]
  /\ IF InvalidQuestion(v)
       THEN \* throw new ValidationError(...)
            /\ pc' = [pc EXCEPT ![p] = "rejected"]
            /\ statusCode' = [statusCode EXCEPT ![p] =
                                ErrorHandler(ChatRouteCatch(ValidationError))]
            /\ UNCHANGED <<queryArg, question, topK, seenDeleted, ref,
                           relevantDocs, answer, sources, llmCalled>>
       ELSE /\ queryArg' = [queryArg EXCEPT ![p] = Trim(v.chars)]
            /\ QueryStart(p, TextId(Trim(v.chars)))
  /\ UNCHANGED <<indexVars, documentStore, uploadVars, deleteVars, scoredDocs>>
  /\ UNCHANGED auxVars

\* The store's similaritySearch returned.
ChatSearch(p) ==
  /\ pc[p] = "search_embed"
  /\ AfterSearch(p, StoreSearch(stores[ref[p]], question[p], topK[p]))
  /\ ref' = [ref EXCEPT ![p] = NULL]
  /\ stores' = Collect([stores EXCEPT ![ref[p]] = SearchedStore(stores[ref[p]])],
                       vectorStoreInstance, ref')
  /\ UNCHANGED <<vectorStoreInstance, isInitialized, documentStore,
                 uploadVars, deleteVars, question, topK, seenDeleted>>
  /\ UNCHANGED <<requestVars, scoredDocs>>
  /\ UNCHANGED auxVars

\* The generation model returned.
ChatLLM(p) ==
  /\ pc[p] = "llm"
  /\ answer' = [answer EXCEPT ![p] = "generated"]
  /\ sources' = [sources EXCEPT ![p] = ExtractSources(relevantDocs[p])]
  /\ pc' = [pc EXCEPT ![p] = "done"]
  /\ statusCode' = [statusCode EXCEPT ![p] = 200]
  /\ UNCHANGED <<indexVars, documentStore, uploadVars, ref, deleteVars,
                 question, topK, relevantDocs, llmCalled, seenDeleted>>
  /\ UNCHANGED <<requestVars, scoredDocs>>
  /\ UNCHANGED auxVars

\* A provider call threw err.  The query embedding is awaited outside
\* query's try block, so its error reaches the route as thrown; an error of
\* llm.invoke is caught by query and replaced.  The route's catch then
\* classifies what it got and errorHandler answers.
ChatFail(p, err) ==
  /\ pc[p] \in {"search_embed", "llm"}
  /\ pc' = [pc EXCEPT ![p] = "failed"]
  /\ LET thrown == IF pc[p] = "llm" THEN GenerationError ELSE err
     IN statusCode' = [statusCode EXCEPT ![p] = ErrorHandler(ChatRouteCatch(thrown))]
  /\ ref' = [ref EXCEPT ![p] = NULL]
  /\ stores' = Collect(stores, vectorStoreInstance, ref')
  /\ UNCHANGED <<vectorStoreInstance, isInitialized, documentStore,
                 uploadVars, deleteVars, question, topK, relevantDocs,
                 answer, sources, llmCalled, seenDeleted>>
  /\ UNCHANGED <<requestVars, scoredDocs>>
  /\ UNCHANGED auxVars

\* ------------------------------------------------- direct calls of Search
\* similaritySearch(query, k) called by a client of the module with a k of
\* its own, up to the provider call.
SearchStart(p, q, kk) ==
  /\ pc[p] = "idle"
  /\ \A o \in Chats : o < p => pc[o] # "idle"
  /\ question' = [question EXCEPT ![p] = q]
  /\ topK' = [topK EXCEPT ![p] = kk]
  /\ seenDeleted' = [seenDeleted EXCEPT ![p] = DeletedDocs]
  /\ IF StoreIsEmpty
       THEN \* return []
            /\ relevantDocs' = [relevantDocs EXCEPT ![p] = <<>>]
            /\ pc' = [pc EXCEPT ![p] = "done"]
            /\ UNCHANGED ref
       ELSE /\ ref' = [ref EXCEPT ![p] = vectorStoreInstance]
            /\ pc' = [pc EXCEPT ![p] = "search_call"]
            /\ UNCHANGED relevantDocs
  /\ UNCHANGED <<indexVars, documentStore, uploadVars, deleteVars, answer,
                 sources, llmCalled, statusCode>>
  /\ UNCHANGED <<requestVars, scoredDocs>>
  /\ UNCHANGED auxVars

\* The store's similaritySearch returned: return results.
SearchDone(p) ==
  /\ pc[p] = "search_call"
  /\ relevantDocs' = [relevantDocs EXCEPT ![p] =
                        StoreSearch(stores[ref[p]], question[p], topK[p])]
  /\ pc' = [pc EXCEPT ![p] = "done"]
  /\ ref' = [ref EXCEPT ![p] = NULL]
  /\ stores' = Collect([stores EXCEPT ![ref[p]] = SearchedStore(stores[ref[p]])],
                       vectorStoreInstance, ref')
  /\ UNCHANGED <<vectorStoreInstance, isInitialized, documentStore,
                 uploadVars, deleteVars, question, topK, answer, sources,
                 llmCalled, statusCode, seenDeleted>>
  /\ UNCHANGED <<requestVars, scoredDocs>>
  /\ UNCHANGED auxVars

\* The store's similaritySearch threw (the embedding call failed, or the
\* store refused its arguments): the error leaves similaritySearch.
SearchFail(p) ==
  /\ pc[p] = "search_call"
  /\ pc' = [pc EXCEPT ![p] = "failed"]
  /\ ref' = [ref EXCEPT ![p] = NULL]
  /\ stores' = Collect(stores, vectorStoreInstance, ref')
  /\ UNCHANGED <<vectorStoreInstance, isInitialized, documentStore,
                 uploadVars, deleteVars, chatVars, statusCode, seenDeleted>>
  /\ UNCHANGED auxVars

\* similaritySearchWithScore(query, k) called by a client of the module, up
\* to the provider call.
ScoreStart(p, q, kk) ==
  /\ pc[p] = "idle"
  /\ \A o \in Chats : o < p => pc[o] # "idle"
  /\ question' = [question EXCEPT ![p] = q]
  /\ topK' = [topK EXCEPT ![p] = kk]
  /\ seenDeleted' = [seenDeleted EXCEPT ![p] = DeletedDocs]
  /\ IF StoreIsEmpty
       THEN \* return []
            /\ scoredDocs' = [scoredDocs EXCEPT ![p] = <<>>]
            /\ pc' = [pc EXCEPT ![p] = "done"]
            /\ UNCHANGED ref
       ELSE /\ ref' = [ref EXCEPT ![p] = vectorStoreInstance]
            /\ pc' = [pc EXCEPT ![p] = "score_call"]
            /\ UNCHANGED scoredDocs
  /\ UNCHANGED <<indexVars, documentStore, uploadVars, deleteVars, relevantDocs,
                 answer, sources, llmCalled, requestVars, statusCode>>
  /\ UNCHANGED auxVars

\* The store's similaritySearchWithScore returned: return its result.
ScoreDone(p) ==
  /\ pc[p] = "score_call"
  /\ scoredDocs' = [scoredDocs EXCEPT ![p] =
                      StoreSearchWithScore(stores[ref[p]], question[p], topK[p])]
  /\ pc' = [pc EXCEPT ![p] = "done"]
  /\ ref' = [ref EXCEPT ![p] = NULL]
  /\ stores' = Collect([stores EXCEPT ![ref[p]] = SearchedStore(stores[ref[p]])],
                       vectorStoreInstance, ref')
  /\ UNCHANGED <<vectorStoreInstance, isInitialized, documentStore,
                 uploadVars, deleteVars, question, topK, relevantDocs, answer,
                 sources, llmCalled, requestVars, statusCode, seenDeleted>>
  /\ UNCHANGED auxVars

\* The store's similaritySearchWithScore threw: the error leaves the call.
ScoreFail(p) ==
  /\ pc[p] = "score_call"
  /\ pc' = [pc EXCEPT ![p] = "failed"]
  /\ ref' = [ref EXCEPT ![p] = NULL]
  /\ stores' = Collect(stores, vectorStoreInstance, ref')
  /\ UNCHANGED <<vectorStoreInstance, isInitialized, documentStore,
                 uploadVars, deleteVars, chatVars, statusCode, seenDeleted>>
  /\ UNCHANGED auxVars

\* ---------------------------------------------------------------- reset
\* reset(): test isolation only; no route calls it.
Reset ==
  /\ vectorStoreInstance' = NULL
  /\ isInitialized' = FALSE
  /\ stores' = Collect(stores, vectorStoreInstance', ref)
  /\ UNCHANGED <<documentStore, pc, uploadVars, ref, deleteVars, chatVars,
                 statusCode, seenDeleted>>
  /\ UNCHANGED auxVars

\* -------------------------------------------------------- specifications
InFlight(p) == pc[p] \notin {"idle", "done", "failed", "notfound", "rejected"}

Next ==
  \/ \E p \in Uploads, n \in 1..MaxChunks : UploadStart(p, n)
  \/ \E p \in Uploads : UploadInitDone(p)
  \/ \E p \in Uploads : UploadAddDone(p)
  \/ \E p \in Uploads : UploadFail(p)
  \/ \E p \in Deleters, d \in Uploads : DeleteStart(p, d)
  \/ \E p \in Deleters : DeleteEnum(p)
  \/ \E p \in Deleters : DeleteBuild(p)
  \/ \E p \in Deleters : DeleteFail(p)
  \/ \E p \in Chats, q \in Questions : ChatStart(p, StringValue(TextOf(q)))
  \/ \E p \in Chats : ChatSearch(p)
  \/ \E p \in Chats : ChatLLM(p)
  \/ \E p \in Chats, err \in ProviderErrors : ChatFail(p, err)

\* The server: requests arrive at any time and interleave at their awaits.
Spec == Init /\ [][Next]_vars

\* The server driven by a test that may call reset() between any two steps.
NextTest == Next \/ Reset
SpecTest == Init /\ [][NextTest]_vars

\* One request at a time: a request starts only when none is in flight.
NextSeq ==
  /\ Next
  /\ \A p \in Procs : (pc[p] = "idle" /\ pc'[p] # "idle") => \A o \in Procs : ~InFlight(o)
SpecSeq == Init /\ [][NextSeq]_vars

\* A request or call starts only when none is in flight.
OneAtATime ==
  \A p \in Procs : (pc[p] = "idle" /\ pc'[p] # "idle") => \A o \in Procs : ~InFlight(o)

\* The chat route driven through the values a request body can carry as
\* its question, one request at a time.
NextChat ==
  /\ \/ \E p \in Uploads, n \in 1..MaxChunks : UploadStart(p, n)
     \/ \E p \in Uploads : UploadInitDone(p)
     \/ \E p \in Uploads : UploadAddDone(p)
     \/ \E p \in Uploads : UploadFail(p)
     \/ \E p \in Chats, v \in RequestQuestions : ChatStart(p, v)
     \/ \E p \in Chats : ChatSearch(p)
     \/ \E p \in Chats : ChatLLM(p)
     \/ \E p \in Chats, err \in ProviderErrors : ChatFail(p, err)
  /\ OneAtATime
SpecChat == Init /\ [][NextChat]_vars

\* The vector store driven through its whole argument range, one call at a
\* time: addDocuments takes any Document[] (the empty one too) and
\* similaritySearch any number k.
BatchSizes == 0..MaxChunks
SearchKs == {0 - 1, 0, 1, 2, QueryK}

NextApi ==
  /\ \/ \E p \in Uploads, n \in BatchSizes : UploadStart(p, n)
     \/ \E p \in Uploads : UploadInitDone(p)
     \/ \E p \in Uploads : UploadAddDone(p)
     \/ \E p \in Uploads : UploadFail(p)
     \/ \E p \in Deleters, d \in Uploads : DeleteStart(p, d)
     \/ \E p \in Deleters : DeleteEnum(p)
     \/ \E p \in Deleters : DeleteBuild(p)
     \/ \E p \in Deleters : DeleteFail(p)
     \/ \E p \in Chats, q \in Questions, kk \in SearchKs : SearchStart(p, q, kk)
     \/ \E p \in Chats : SearchDone(p)
     \/ \E p \in Chats : SearchFail(p)
     \/ \E p \in Chats, q \in Questions, kk \in SearchKs : ScoreStart(p, q, kk)
     \/ \E p \in Chats : ScoreDone(p)
     \/ \E p \in Chats : ScoreFail(p)
  /\ OneAtATime
SpecApi == Init /\ [][NextApi]_vars

\* A large library: the first upload is a leaflet collection of EnumK
\* chunks, the later ones are small (or yield no chunk); requests come one
\* at a time and the providers do not fail.
BulkSizes(p) == IF p = 1 THEN {EnumK} ELSE BatchSizes

NextBulk ==
  /\ \/ \E p \in Uploads : \E n \in BulkSizes(p) : UploadStart(p, n)
     \/ \E p \in Uploads : UploadInitDone(p)
     \/ \E p \in Uploads : UploadAddDone(p)
     \/ \E p \in Deleters, d \in Uploads : DeleteStart(p, d)
     \/ \E p \in Deleters : DeleteEnum(p)
     \/ \E p \in Deleters : DeleteBuild(p)
  /\ OneAtATime
SpecBulk == Init /\ [][NextBulk]_vars

\* ------------------------------------- the placeholder-based vector store
\* The module keeps one HNSWLib store, created on the first getInstance
\* with a placeholder record, and every function starts with
\* `await getInstance()`.  A call is the code between two provider calls,
\* as above; the continuations of all calls awaiting one promise run in the
\* same turn of the event loop, when the promise settles.

\* `doc.metadata.isPlaceholder`
IsPlaceholder(r) == r = Placeholder

\* The check `if (initializationPromise)` left out.
PromiseIgnored == FALSE

\* `if (initializationPromise)`: the variable holds a promise, settled or not.
PromiseHeld == initializationPromise # "null"

\* The provider call a function makes once it has the store.
FirstCall(op) ==
  CASE op = "add" -> "add_call"
    [] op = "search" -> "search_call"
    [] op = "delete" -> "enum_call"

\* getInstance() as called by c, up to its return or its first await.
GetInstance(c) ==
  IF singletonInstance # NULL
    THEN \* return vectorStoreInstance
         /\ callStore' = [callStore EXCEPT ![c] = singletonInstance]
         /\ callPath' = [callPath EXCEPT ![c] = "existing"]
         /\ callPc' = [callPc EXCEPT ![c] = FirstCall(callOp'[c])]
         /\ UNCHANGED <<initializationPromise, initRuns>>
    ELSE IF PromiseHeld
    THEN \* return initializationPromise
         /\ callPath' = [callPath EXCEPT ![c] = "promise"]
         /\ callPc' = [callPc EXCEPT ![c] =
                         IF initializationPromise = "rejected"
                           THEN "failed" ELSE "await_init"]
         /\ UNCHANGED <<callStore, initializationPromise, initRuns>>
    ELSE \* initializationPromise = initializeVectorStore()
         /\ initializationPromise' = "pending"
         /\ initRuns' = initRuns + 1
         /\ callPath' = [callPath EXCEPT ![c] = "initialize"]
         /\ callPc' = [callPc EXCEPT ![c] = "init_call"]
         /\ UNCHANGED callStore

\* addDocuments(docs), the batch of a document of n chunks with id c.
CallAdd(c, n) ==
  /\ callPc[c] = "idle"
  /\ \A o \in Callers : o < c => callPc[o] # "idle"
  /\ callOp' = [callOp EXCEPT ![c] = "add"]
  /\ callDocs' = [callDocs EXCEPT ![c] = LangchainDocs(c, n)]
  /\ GetInstance(c)
  /\ UNCHANGED <<singletonInstance, singletonStores, callTarget, callRemaining,
                 callDeleted, callResults>>
  /\ UNCHANGED outsideSingleton

\* similaritySearch(query) with the default k.
CallSearch(c) ==
  /\ callPc[c] = "idle"
  /\ \A o \in Callers : o < c => callPc[o] # "idle"
  /\ callOp' = [callOp EXCEPT ![c] = "search"]
  /\ GetInstance(c)
  /\ UNCHANGED <<singletonInstance, singletonStores, callDocs, callTarget,
                 callRemaining, callDeleted, callResults>>
  /\ UNCHANGED outsideSingleton

\* deleteByDocumentId(documentId)
CallDelete(c, documentId) ==
  /\ callPc[c] = "idle"
  /\ \A o \in Callers : o < c => callPc[o] # "idle"
  /\ callOp' = [callOp EXCEPT ![c] = "delete"]
  /\ callTarget' = [callTarget EXCEPT ![c] = documentId]
  /\ GetInstance(c)
  /\ UNCHANGED <<singletonInstance, singletonStores, callDocs, callRemaining,
                 callDeleted, callResults>>
  /\ UNCHANGED outsideSingleton

\* The calls whose getInstance settles with the promise of c's
\* initializeVectorStore: c itself and those that were handed the promise.
Awaiting(c) == {c} \cup {x \in Callers : callPc[x] = "await_init"}

\* HNSWLib.fromDocuments([placeholder]) returned: getInstance publishes the
\* store and clears the promise; every awaiting call goes on with the store.
InitializeDone(c) ==
  /\ callPc[c] = "init_call"
  /\ singletonStores' = [singletonStores EXCEPT ![c] = FromDocuments(<<Placeholder>>)]
  /\ singletonInstance' = AwaitAssign(singletonInstance, c, FALSE)
  /\ initializationPromise' = "null"
  /\ callStore' = [x \in Callers |-> IF x \in Awaiting(c) THEN c ELSE callStore[x]]
  /\ callPc' = [x \in Callers |->
                  IF x \in Awaiting(c) THEN FirstCall(callOp[x]) ELSE callPc[x]]
  /\ UNCHANGED <<callOp, callDocs, callTarget, callPath, callRemaining,
                 callDeleted, callResults, initRuns>>
  /\ UNCHANGED outsideSingleton

\* initializeVectorStore threw (getEmbeddings or the build): the await in
\* getInstance rethrows, so neither assignment after it is made; the
\* variable keeps the promise, now rejected, and every awaiting call fails.
InitializeFail(c) ==
  /\ callPc[c] = "init_call"
  /\ singletonInstance' = AwaitAssign(singletonInstance, c, TRUE)
  /\ initializationPromise' = "rejected"
  /\ callPc' = [x \in Callers |-> IF x \in Awaiting(c) THEN "failed" ELSE callPc[x]]
  /\ UNCHANGED <<singletonStores, callOp, callDocs, callTarget, callStore,
                 callPath, callRemaining, callDeleted, callResults, initRuns>>
  /\ UNCHANGED outsideSingleton

\* store.addDocuments(docs) returned.
CallAddDone(c) ==
  /\ callPc[c] = "add_call"
  /\ singletonStores' = [singletonStores EXCEPT ![callStore[c]] =
                           StoreAdd(singletonStores[callStore[c]], callDocs[c])]
  /\ callPc' = [callPc EXCEPT ![c] = "done"]
  /\ UNCHANGED <<singletonInstance, initializationPromise, callOp, callDocs,
                 callTarget, callStore, callPath, callRemaining, callDeleted,
                 callResults, initRuns>>
  /\ UNCHANGED outsideSingleton

\* results.filter(doc => !doc.metadata.isPlaceholder).slice(0, k)
WithoutPlaceholder(results, k) ==
  LET real == SelectSeq(results, LAMBDA r : ~IsPlaceholder(r))
  IN SubSeq(real, 1, Min(k, Len(real)))

\* store.similaritySearch(query, k + 1) returned.
CallSearchDone(c) ==
  /\ callPc[c] = "search_call"
  /\ \E q \in Questions :
       callResults' = [callResults EXCEPT ![c] =
         WithoutPlaceholder(StoreSearch(singletonStores[callStore[c]], q, QueryK + 1),
                            QueryK)]
  /\ callPc' = [callPc EXCEPT ![c] = "done"]
  /\ UNCHANGED <<singletonInstance, initializationPromise, singletonStores,
                 callOp, callDocs, callTarget, callStore, callPath,
                 callRemaining, callDeleted, initRuns>>
  /\ UNCHANGED outsideSingleton

\* allDocs.filter(doc => doc.metadata.documentId !== documentId &&
\*                       !doc.metadata.isPlaceholder)
RemainingReal(allDocs, documentId) ==
  SelectSeq(allDocs, LAMBDA r : r.documentId # documentId /\ ~IsPlaceholder(r))

\* allDocs.length - remainingDocs.length - 1
DeletedCount(allDocs, remaining) == Len(allDocs) - Len(remaining) - 1

\* store.similaritySearch('', 10000) returned: filter, count, and start the
\* build of the new store (from the remaining documents, or from a
\* placeholder when none remains).
CallEnumDone(c) ==
  /\ callPc[c] = "enum_call"
  /\ LET allDocs == StoreSearch(singletonStores[callStore[c]], EmptyQuery, EnumK)
         remaining == RemainingReal(allDocs, callTarget[c])
     IN /\ callDeleted' = [callDeleted EXCEPT ![c] = DeletedCount(allDocs, remaining)]
        /\ callRemaining' = [callRemaining EXCEPT ![c] =
                               IF Len(remaining) > 0 THEN remaining
                               ELSE <<Placeholder>>]
  /\ callPc' = [callPc EXCEPT ![c] = "rebuild_call"]
  /\ UNCHANGED <<singletonInstance, initializationPromise, singletonStores,
                 callOp, callDocs, callTarget, callStore, callPath,
                 callResults, initRuns>>
  /\ UNCHANGED outsideSingleton

\* HNSWLib.fromDocuments returned: publish the new store, return deletedCount.
CallRebuildDone(c) ==
  /\ callPc[c] = "rebuild_call"
  /\ singletonStores' = [singletonStores EXCEPT ![NumCallers + c] =
                           FromDocuments(callRemaining[c])]
  /\ singletonInstance' = AwaitAssign(singletonInstance, NumCallers + c, FALSE)
  /\ callPc' = [callPc EXCEPT ![c] = "done"]
  /\ UNCHANGED <<initializationPromise, callOp, callDocs, callTarget, callStore,
                 callPath, callRemaining, callDeleted, callResults, initRuns>>
  /\ UNCHANGED outsideSingleton

\* A provider call on the store threw: the error leaves the function.
CallFail(c) ==
  /\ callPc[c] \in {"add_call", "search_call", "enum_call", "rebuild_call"}
  /\ callPc' = [callPc EXCEPT ![c] = "failed"]
  /\ singletonInstance' =
       IF callPc[c] = "rebuild_call"
         THEN AwaitAssign(singletonInstance, NumCallers + c, TRUE)
         ELSE singletonInstance
  /\ UNCHANGED <<initializationPromise, singletonStores, callOp, callDocs,
                 callTarget, callStore, callPath, callRemaining, callDeleted,
                 callResults, initRuns>>
  /\ UNCHANGED outsideSingleton

NextSingleton ==
  \/ \E c \in Callers, n \in 1..MaxChunks : CallAdd(c, n)
  \/ \E c \in Callers : CallSearch(c)
  \/ \E c \in Callers, d \in Callers : CallDelete(c, d)
  \/ \E c \in Callers : InitializeDone(c)
  \/ \E c \in Callers : InitializeFail(c)
  \/ \E c \in Callers : CallAddDone(c)
  \/ \E c \in Callers : CallSearchDone(c)
  \/ \E c \in Callers : CallEnumDone(c)
  \/ \E c \in Callers : CallRebuildDone(c)
  \/ \E c \in Callers : CallFail(c)

\* The placeholder-based module under calls that arrive at any time.
SpecSingleton == Init /\ [][NextSingleton]_vars

\* ------------------------------------------------ conversation history
\* A Message of the conversation: its role and its content.
Messages == [role : {"user", "assistant"}, content : {1}]

\* The conversation histories a client can send: up to MaxHistory messages.
Histories == UNION {[1..n -> Messages] : n \in 0..MaxHistory}

\* Array.prototype.slice(start) for an integer start: a negative start
\* counts from the end, and a start before the first element is the first.
Slice(arr, start) ==
  LET from == IF start < 0
                THEN (IF Len(arr) + start < 0 THEN 0 ELSE Len(arr) + start)
                ELSE Min(start, Len(arr))
  IN SubSeq(arr, from + 1, Len(arr))

\* The first HistoryWindow messages instead of the last.
OldestMessages(arr) == SubSeq(arr, 1, Min(HistoryWindow, Len(arr)))

\* conversationHistory.slice(-10)
RecentMessages(arr) == Slice(arr, 0 - HistoryWindow)

\* `${role}: ${msg.content}`
HistoryLine(msg) ==
  [speaker |-> IF msg.role = "user" THEN "User" ELSE "Assistant",
   content |-> msg.content]

\* formatHistory(messages): one line per message, joined by '\n'.
FormatHistory(msgs) == [j \in 1..Len(msgs) |-> HistoryLine(msgs[j])]

\* query from the retrieved context to the prompt: the history that takes
\* the place of {history} in the prompt handed to the generation model.
BuildPromptHistory ==
  /\ ~historyFormatted
  /\ promptHistory' = FormatHistory(RecentMessages(conversationHistory))
  /\ historyFormatted' = TRUE
  /\ UNCHANGED conversationHistory
  /\ UNCHANGED outsideHistory

\* query on every conversation history.
HistoryInputs ==
  /\ ServerInit
  /\ SingletonInit
  /\ ClientInit
  /\ conversationHistory \in Histories
  /\ promptHistory = <<>>
  /\ historyFormatted = FALSE

SpecHistory == HistoryInputs /\ [][BuildPromptHistory]_vars

\* ------------------------------------------------------- the chat panel
\* A message of the chat panel, tagged with the conversation that was on
\* screen when its question was submitted.
ChatMessage(kind, conv) == [role |-> kind, conversation |-> conv]

\* handleSubmit up to the await of the HTTP request: the user message is
\* appended, isLoading is set, and the last ten messages go out as history.
\* The form submits only when no request is awaited.
HandleSubmit ==
  /\ ~isLoading
  /\ Len(messages) + 2 <= MaxMessages
  /\ messages' = Append(messages, ChatMessage("user", conversation))
  /\ isLoading' = TRUE
  /\ pendingRequest' = <<[conversation |-> conversation,
                          history |-> Slice(messages, 0 - 10)]>>
  /\ UNCHANGED conversation
  /\ UNCHANGED outsideClient

\* The response arrived: the assistant message is appended to whatever the
\* panel shows now (setMessages(prev => [...prev, assistantMessage])).
HandleResponse ==
  /\ pendingRequest # <<>>
  /\ messages' = Append(messages, ChatMessage("assistant", pendingRequest[1].conversation))
  /\ isLoading' = FALSE
  /\ pendingRequest' = <<>>
  /\ UNCHANGED conversation
  /\ UNCHANGED outsideClient

\* The request failed: the error message is appended the same way.
HandleError ==
  /\ pendingRequest # <<>>
  /\ messages' = Append(messages, ChatMessage("error", pendingRequest[1].conversation))
  /\ isLoading' = FALSE
  /\ pendingRequest' = <<>>
  /\ UNCHANGED conversation
  /\ UNCHANGED outsideClient

\* handleNewChat: the button is rendered while there are messages, also
\* while a request is awaited.
HandleNewChat ==
  /\ Len(messages) > 0
  /\ conversation < MaxNewChats
  /\ messages' = <<>>
  /\ conversation' = conversation + 1
  /\ UNCHANGED <<isLoading, pendingRequest>>
  /\ UNCHANGED outsideClient

NextClient ==
  \/ HandleSubmit
  \/ HandleResponse
  \/ HandleError
  \/ HandleNewChat

\* The chat panel under a user who may click at any time.
SpecClient == Init /\ [][NextClient]_vars

\* ================================================================ claims
\* What a Search issued now reads: the records of the live index.
LiveRecords == IF StoreIsEmpty THEN <<>> ELSE stores[vectorStoreInstance]

\* The index state Init, reset() and the delete of the last document set.
EmptyState == vectorStoreInstance = NULL /\ ~isInitialized

\* No upload and no deletion is in flight.
Quiescent == \A p \in Uploads \cup Deleters : ~InFlight(p)

\* chunkCount the catalog holds for d; 0 when it has no entry.
CatalogCount(d) == IF HasDocument(documentStore, d) THEN documentStore[d] ELSE 0

\* Uploads that took the first-time branch of addDocuments.
FirstTimeUploads == {u \in Uploads : branch[u] = "init"}

\* C1: when two or more inserts that found the index empty have all
\* completed (and no delete was issued), the live index holds the records
\* of every one of them.
C1_ConcurrentInsertsKeepUnion ==
  ( /\ Cardinality(FirstTimeUploads) >= 2
    /\ \A u \in FirstTimeUploads : pc[u] = "done"
    /\ \A d \in Deleters : pc[d] = "idle" )
  => \A u \in FirstTimeUploads : SeqToSet(docs[u]) \subseteq SeqToSet(LiveRecords)

\* C2: while the index does not exist, at most one first-time build
\* (initializeWithDocuments) is in flight.
C2_SingleBuildInFlight ==
  StoreIsEmpty => Cardinality({u \in Uploads : pc[u] = "init_build"}) <= 1

\* C3: when a search reads the index, the store it reads holds, for every
\* document a DELETE request has been issued for, either all of that
\* document's records or none of them, and the result is drawn from that
\* store.
C3_SearchSeesWholeDocuments ==
  [][\A c \in Chats :
       (pc[c] = "search_embed" /\ pc'[c] \in {"llm", "done"}) =>
         /\ SeqToSet(relevantDocs'[c]) \subseteq SeqToSet(stores[ref[c]])
         /\ \A d \in Deleters :
              pc[d] # "idle" =>
                CountOf(stores[ref[c]], target[d]) \in {0, Len(docs[target[d]])}
    ]_vars

\* C3 witness: a search has returned records of a document whose delete is
\* rebuilding the index at that moment.
C3_Witness ==
  \E c \in Chats, d \in Deleters :
    /\ pc[c] = "llm"
    /\ pc[d] = "del_build"
    /\ \E j \in 1..Len(relevantDocs[c]) : relevantDocs[c][j].documentId = target[d]
    /\ Len(docs[target[d]]) = MaxChunks

\* C4: the records of a completed insert into the existing index are in the
\* live index once a delete of another document has published its rebuild
\* (stated for runs with a single first-time build, so that no record is
\* missing for another reason).
C4_InsertSurvivesRebuild ==
  \A u \in Uploads, p \in Deleters :
    ( /\ Cardinality(FirstTimeUploads) = 1
      /\ pc[u] = "done"
      /\ branch[u] = "add"
      /\ pc[p] = "done"
      /\ vectorStoreInstance = p
      /\ isInitialized
      /\ \A d \in Deleters : pc[d] # "idle" => target[d] # u )
    => SeqToSet(docs[u]) \subseteq SeqToSet(LiveRecords)

\* C5: a search issued after the delete of a document has completed returns
\* no record of that document.
C5_NoDeletedRecordReturned ==
  \A c \in Chats :
    \A j \in 1..Len(relevantDocs[c]) :
      relevantDocs[c][j].documentId \notin seenDeleted[c]

\* C6: with one request at a time, a delete that completes on a ready index
\* leaves exactly the records of the other documents and returns the number
\* of records the document had.
C6_SequentialDeleteExact ==
  [][\A p \in Deleters :
       (pc[p] \in {"del_enum", "del_build"} /\ pc'[p] = "done") =>
         /\ SeqToSet(LiveRecords') =
              {r \in SeqToSet(LiveRecords) : r.documentId # target[p]}
         /\ Len(LiveRecords') = Len(LiveRecords) - CountOf(LiveRecords, target[p])
         /\ deletedCount'[p] = CountOf(LiveRecords, target[p])
    ]_vars

\* C7: when no upload or deletion is in flight, the index holds for every
\* document id as many records as the catalog's chunkCount.
C7_CatalogMatchesIndex ==
  Quiescent => \A d \in Uploads : CountOf(LiveRecords, d) = CatalogCount(d)

\* C8: a query whose search returned nothing answers with the fixed message
\* and no sources, and the generation model is called only after a
\* non-empty search result.
C8_EmptySearchShortCircuits ==
  \A c \in Chats :
    /\ llmCalled[c] => relevantDocs[c] # <<>>
    /\ (pc[c] \in {"llm", "done"} /\ relevantDocs[c] = <<>>) =>
         /\ pc[c] = "done"
         /\ answer[c] = "NO_DOCUMENTS_MESSAGE"
         /\ sources[c] = <<>>

\* C8 witness: a query has answered with the fixed message.
C8_Witness ==
  \E c \in Chats :
    /\ pc[c] = "done"
    /\ relevantDocs[c] = <<>>
    /\ answer[c] = "NO_DOCUMENTS_MESSAGE"
    /\ ~llmCalled[c]

\* C9: a search issued in the empty state returns the empty result at once
\* and does not fail.
C9_SearchOnEmptyReturnsEmpty ==
  [][\A c \in Chats :
       (pc[c] = "idle" /\ pc'[c] # "idle" /\ EmptyState) =>
         /\ pc'[c] = "done"
         /\ relevantDocs'[c] = <<>>
    ]_vars

\* C9 witness: a search issued after a completed delete, with the index
\* empty again, returned the empty result.
C9_Witness ==
  \E c \in Chats :
    /\ pc[c] = "done"
    /\ relevantDocs[c] = <<>>
    /\ seenDeleted[c] # {}
    /\ EmptyState

\* The store holds records of document d and of no other document.
OnlyDocument(recs, d) ==
  /\ CountOf(recs, d) > 0
  /\ \A o \in Uploads \ {d} : CountOf(recs, o) = 0

\* C10: a delete whose enumeration finds the target to be the only document
\* of the index finishes at once and leaves the empty state, and a
\* first-time insert issued after a completed delete publishes an index
\* holding exactly its own records.
C10_CleanInitAfterLastDelete ==
  [][/\ \A p \in Deleters :
          ( /\ pc[p] = "del_enum"
            /\ pc'[p] \in {"del_build", "done"}
            /\ OnlyDocument(stores[ref[p]], target[p]) )
          => pc'[p] = "done" /\ EmptyState' /\ LiveRecords' = <<>>
     /\ \A u \in Uploads :
          (pc[u] = "init_build" /\ pc'[u] = "done" /\ seenDeleted[u] # {}) =>
            /\ ~StoreIsEmpty'
            /\ LiveRecords' = docs[u]
    ]_vars

\* C10 witness: after the only document was deleted, a new document was
\* inserted through the first-time branch and the index holds exactly it.
C10_Witness ==
  \E u \in Uploads, p \in Deleters :
    /\ pc[p] = "done"
    /\ deletedCount[p] > 0
    /\ target[p] \in seenDeleted[u]
    /\ branch[u] = "init"
    /\ pc[u] = "done"
    /\ LiveRecords = docs[u]
    /\ DOMAIN documentStore = {u}

\* C11: as long as no delete has been issued, the live index holds, for
\* every document whose insert has completed, exactly as many records as the
\* insert's batch had, whatever inserts for other documents ran meanwhile.
C11_InsertedCountStable ==
  (\A d \in Deleters : pc[d] = "idle")
  => \A u \in Uploads : pc[u] = "done" => CountOf(LiveRecords, u) = Len(docs[u])

\* C12: an insert that fails ends in an error response and changes nothing:
\* the step on which it fails leaves the module reference, the flag, the
\* records a search reads and the catalog as they were, and afterwards no
\* store holds a record of the failed batch and the catalog has no entry
\* for the document.
C12_FailedInsertLeavesIndex ==
  /\ [](\A u \in Uploads :
          pc[u] = "failed" =>
            /\ statusCode[u] >= 400
            /\ ~HasDocument(documentStore, u)
            /\ \A b \in Builders : CountOf(stores[b], u) = 0)
  /\ [][\A u \in Uploads :
          (InFlight(u) /\ pc'[u] = "failed") =>
            /\ vectorStoreInstance' = vectorStoreInstance
            /\ isInitialized' = isInitialized
            /\ LiveRecords' = LiveRecords
            /\ documentStore' = documentStore
       ]_vars

\* C12 witness: one insert failed in its first-time build and one failed
\* while adding to the existing store, and the index holds the records of
\* the inserts that succeeded.
C12_Witness ==
  \E u, v \in Uploads :
    /\ pc[u] = "failed" /\ branch[u] = "init"
    /\ pc[v] = "failed" /\ branch[v] = "add"
    /\ Len(LiveRecords) > 0
    /\ \A d \in Deleters : pc[d] = "idle"

\* C13: when the rebuild of a delete fails, the request ends in an error
\* response and the failing step leaves the module reference, the flag, the
\* records a search reads and the catalog as they were: the published index
\* stays live with the records it had and the catalog entry is not removed.
C13_FailedRebuildKeepsIndex ==
  [][\A p \in Deleters :
       (pc[p] = "del_build" /\ pc'[p] = "failed") =>
         /\ statusCode'[p] >= 400
         /\ vectorStoreInstance' = vectorStoreInstance
         /\ isInitialized' = isInitialized
         /\ LiveRecords' = LiveRecords
         /\ documentStore' = documentStore
    ]_vars

\* C13 witness: a delete failed after its enumeration had counted the
\* document's records; the live index still holds all of them, the catalog
\* still has the document, and a search has returned one of its records.
C13_Witness ==
  \E p \in Deleters, c \in Chats :
    /\ pc[p] = "failed"
    /\ deletedCount[p] = MaxChunks
    /\ CountOf(LiveRecords, target[p]) = MaxChunks
    /\ HasDocument(documentStore, target[p])
    /\ pc[c] \in {"llm", "done"}
    /\ \E j \in 1..Len(relevantDocs[c]) : relevantDocs[c][j].documentId = target[p]

\* C14: an insert with an empty batch and a search with k <= 0 are rejected
\* on arrival: the call ends in an error on its first step, before any
\* provider call is made, and the index state is left as it was.
C14_InvalidArgumentsRejected ==
  [][/\ \A u \in Uploads :
          (pc[u] = "idle" /\ pc'[u] # "idle" /\ docs'[u] = <<>>) =>
            (pc'[u] = "failed" /\ UNCHANGED indexVars)
     /\ \A c \in Chats :
          (pc[c] = "idle" /\ pc'[c] # "idle" /\ topK'[c] <= 0) =>
            (pc'[c] = "failed" /\ UNCHANGED indexVars)
    ]_vars

\* C15: a delete for a document id that has no record in the index returns
\* 0 and leaves the set of records a search reads as it was, whether the
\* index is empty or ready.
C15_DeleteAbsentIsNoOp ==
  [][\A p \in Deleters :
       (pc[p] # "done" /\ pc'[p] = "done" /\ CountOf(LiveRecords, target'[p]) = 0) =>
         /\ deletedCount'[p] = 0
         /\ SeqToSet(LiveRecords') = SeqToSet(LiveRecords)
    ]_vars

\* The texts upload u has handed to the embedding provider: those of its
\* batch, through HNSWLib.fromDocuments or the store's addDocuments.
SubmittedByInsert(u) == IF pc[u] # "idle" THEN SeqToSet(docs[u]) ELSE {}

\* The texts the rebuild of delete p has in flight at the embedding
\* provider: HNSWLib.fromDocuments(remainingDocs, embeddings) embeds the
\* documents it is given.
SubmittedByRebuild(p) ==
  IF pc[p] = "del_build" THEN SeqToSet(remainingDocs[p]) ELSE {}

\* C16: no passage text is handed to the embedding provider twice: the
\* rebuild of a delete submits no text that an insert has submitted.
C16_NoTextEmbeddedTwice ==
  \A p \in Deleters, u \in Uploads :
    SubmittedByRebuild(p) \cap SubmittedByInsert(u) = {}

\* C17: the enumeration of a delete returns every record of the store it
\* runs on, and the rebuilt index holds, for every other document, as many
\* records as the index held before.
C17_EnumerationReturnsAll ==
  [][\A p \in Deleters :
       /\ (pc[p] = "del_enum" /\ pc'[p] \in {"del_build", "done"}) =>
            Len(remainingDocs'[p]) + deletedCount'[p] = Len(stores[ref[p]])
       /\ (pc[p] = "del_build" /\ pc'[p] = "done") =>
            \A d \in Uploads \ {target[p]} :
              CountOf(LiveRecords', d) = CountOf(LiveRecords, d)
    ]_vars

\* Record a was inserted before record b, when requests come one at a time:
\* documents are inserted in the order of their ids, the chunks of a
\* document in the order of their index.
InsertedBefore(a, b) ==
  \/ a.documentId < b.documentId
  \/ a.documentId = b.documentId /\ a.chunkIndex < b.chunkIndex

\* res is made of the nearest records of recs to q, nearest first.
NearestFirst(res, recs, q) ==
  /\ SeqToSet(res) \subseteq SeqToSet(recs)
  /\ \A i, j \in 1..Len(res) : i < j => Dist(q, res[i]) <= Dist(q, res[j])
  /\ \A r \in SeqToSet(recs) \ SeqToSet(res) :
       \A i \in 1..Len(res) : Dist(q, res[i]) <= Dist(q, r)

\* Records of res at the same distance from q come in insertion order.
TiesByInsertion(res, q) ==
  \A i, j \in 1..Len(res) :
    (i < j /\ Dist(q, res[i]) = Dist(q, res[j])) => InsertedBefore(res[i], res[j])

\* C18: a search with k > 0 on a ready index of n records returns exactly
\* min(k, n) records, the nearest ones, by ascending distance, and records
\* at the same distance come in the order they were inserted, also after a
\* delete has rebuilt the index.
C18_SearchOrderedTiesByInsertion ==
  [][\A c \in Chats :
       (pc[c] = "search_call" /\ pc'[c] = "done" /\ topK[c] > 0) =>
         /\ Len(relevantDocs'[c]) = Min(topK[c], Len(stores[ref[c]]))
         /\ NearestFirst(relevantDocs'[c], stores[ref[c]], question[c])
         /\ TiesByInsertion(relevantDocs'[c], question[c])
    ]_vars

\* The Source value of a record.
SourceOf(r) == [document |-> r.source, page |-> r.page]

\* The position in rd of the first record whose Source is src.
FirstOccurrence(rd, src) ==
  CHOOSE j \in 1..Len(rd) :
    /\ SourceOf(rd[j]) = src
    /\ \A m \in 1..(j - 1) : SourceOf(rd[m]) # src

\* C19: the sources of a generated answer hold the (document, page) pair of
\* every retrieved record exactly once and nothing else, in the order in
\* which the pairs first occur among the retrieved records.
C19_SourcesDedupedInOrder ==
  \A c \in Chats :
    (pc[c] = "done" /\ answer[c] = "generated") =>
      /\ \A j \in 1..Len(relevantDocs[c]) :
           Cardinality({i \in 1..Len(sources[c]) :
                          sources[c][i] = SourceOf(relevantDocs[c][j])}) = 1
      /\ \A i \in 1..Len(sources[c]) :
           \E j \in 1..Len(relevantDocs[c]) : sources[c][i] = SourceOf(relevantDocs[c][j])
      /\ \A i1, i2 \in 1..Len(sources[c]) :
           i1 < i2 => FirstOccurrence(relevantDocs[c], sources[c][i1])
                        < FirstOccurrence(relevantDocs[c], sources[c][i2])

\* C19 witness: an answer whose retrieved records include two chunks of one
\* page and records of two documents, and whose second source first occurs
\* after a repeated occurrence of the first.
C19_Witness ==
  \E c \in Chats :
    /\ pc[c] = "done"
    /\ answer[c] = "generated"
    /\ Len(sources[c]) >= 2
    /\ Len(sources[c]) < Len(relevantDocs[c])
    /\ \E i, j \in 1..Len(relevantDocs[c]) :
         /\ i < j
         /\ SourceOf(relevantDocs[c][i]) = SourceOf(relevantDocs[c][j])
         /\ relevantDocs[c][i].documentId # relevantDocs[c][j].documentId

\* C20: a chat request that failed because the embedding provider or the
\* generation model failed is answered in the "AI service unavailable"
\* category (status 503).
C20_ProviderFailureIs503 ==
  \A c \in Chats : pc[c] = "failed" => statusCode[c] = 503

\* C21: a provider failure is confined to the call it hit: a call that
\* arrives after an earlier call has failed is not failed by that earlier
\* error, so no call fails on arrival, before a provider call of its own.
C21_FailureConfinedToRequest ==
  [][\A c \in Callers : callPc[c] = "idle" => callPc'[c] # "failed"]_vars

\* C22: a search that arrives while the first index build is in flight
\* waits for that build: it does not return before the build has completed.
C22_SearchWaitsForFirstBuild ==
  [][\A c \in Chats :
       ( /\ pc[c] = "idle"
         /\ pc'[c] # "idle"
         /\ StoreIsEmpty
         /\ \E u \in Uploads : pc[u] = "init_build" )
       => pc'[c] # "done"
    ]_vars

\* C23: the catalog is updated only after the index operation succeeded: a
\* document enters the catalog only on the step on which its insert
\* completes, it leaves the catalog only on a step on which a delete for it
\* completes, and a step on which a request fails leaves the catalog as it
\* was.
C23_CatalogAfterIndexSuccess ==
  [][/\ \A u \in Uploads :
          (u \in DOMAIN documentStore' /\ u \notin DOMAIN documentStore) =>
            /\ pc[u] \in {"init_build", "add_embed"}
            /\ pc'[u] = "done"
     /\ \A d \in Uploads :
          (d \in DOMAIN documentStore /\ d \notin DOMAIN documentStore') =>
            \E p \in Deleters :
              /\ target'[p] = d
              /\ pc[p] \in {"idle", "del_enum", "del_build"}
              /\ pc'[p] = "done"
     /\ \A p \in Uploads \cup Deleters :
          (pc[p] # "failed" /\ pc'[p] = "failed") => documentStore' = documentStore
    ]_vars

\* C23 witness: an insert has succeeded and its document is in the catalog,
\* an insert has failed and its document is not, a delete has succeeded and
\* its document is gone from the catalog, and a delete has failed in its
\* rebuild and its document is still there.
C23_Witness ==
  \E u, v, w \in Uploads, p, r \in Deleters :
    /\ pc[u] = "done" /\ u \in DOMAIN documentStore
    /\ pc[v] = "failed" /\ v \notin DOMAIN documentStore
    /\ pc[p] = "done" /\ target[p] = w /\ deletedCount[p] > 0
    /\ w \notin DOMAIN documentStore
    /\ pc[r] = "failed" /\ target[r] = u /\ deletedCount[r] > 0

\* C24: the prompt handed to the generation model holds the last
\* min(n, 10) messages of a history of n messages, one line each, in their
\* original order, and no earlier message.
C24_LastTenMessagesInOrder ==
  historyFormatted =>
    LET n == Len(conversationHistory)
        m == Min(n, 10)
    IN /\ Len(promptHistory) = m
       /\ \A j \in 1..m :
            promptHistory[j] = HistoryLine(conversationHistory[n - m + j])

\* C24 witness: a history of more than ten messages whose first ten differ
\* from its last ten has been cut to the last ten.
C24_Witness ==
  /\ historyFormatted
  /\ Len(conversationHistory) = MaxHistory
  /\ Len(promptHistory) = 10
  /\ conversationHistory[1].role # conversationHistory[MaxHistory - 9].role

\* The calls that arrived while no instance existed.
ArrivedBeforeInstance == {c \in Callers : callPath[c] \in {"initialize", "promise"}}

\* C25: for any number of calls of getInstance that arrive while no instance
\* exists, initializeVectorStore runs exactly once, and all of those calls
\* that are handed a store are handed the same one.
C25_SingleInitialization ==
  /\ initRuns <= 1
  /\ ArrivedBeforeInstance # {} => initRuns = 1
  /\ \A c, d \in ArrivedBeforeInstance :
       (callStore[c] # NULL /\ callStore[d] # NULL) => callStore[c] = callStore[d]

\* C25 witness: every call arrived while the first was still initializing
\* the store, an upload and a search among them, and all were handed the
\* store of that one initialization.
C25_Witness ==
  /\ ArrivedBeforeInstance = Callers
  /\ initRuns = 1
  /\ \A c \in Callers : callStore[c] = callStore[1] /\ callStore[c] # NULL
  /\ \E c, d \in Callers : callOp[c] = "add" /\ callOp[d] = "search"

\* C26: deleteByDocumentId returns the number of records of the store whose
\* documentId is the argument (0 when there is none), also when an earlier
\* delete has rebuilt the store.
C26_DeleteReturnsRecordCount ==
  [][\A c \in Callers :
       (callPc[c] = "enum_call" /\ callPc'[c] = "rebuild_call") =>
         callDeleted'[c] = CountOf(singletonStores[callStore[c]], callTarget[c])
    ]_vars

\* C27: a DELETE request for a document id that is not in the catalog is
\* answered 404 (NotFoundError) on arrival and changes neither the index
\* nor the catalog: deleteByDocumentId is not invoked (the request takes no
\* store, counts nothing and makes no further step).
C27_DeleteUnknownIsNotFound ==
  [][\A p \in Deleters :
       /\ (pc[p] = "idle" /\ pc'[p] # "idle" /\ target'[p] \notin DOMAIN documentStore) =>
            /\ pc'[p] = "notfound"
            /\ statusCode'[p] = 404
            /\ ref'[p] = NULL
            /\ deletedCount'[p] = deletedCount[p]
            /\ UNCHANGED <<vectorStoreInstance, isInitialized, stores, documentStore>>
       /\ pc[p] = "notfound" => (pc'[p] = "notfound" /\ statusCode'[p] = 404)
    ]_vars

\* C27 witness: a second DELETE for a document that an earlier DELETE has
\* removed was answered not-found while the index holds other documents.
C27_Witness ==
  \E p, r \in Deleters :
    /\ pc[r] = "done" /\ deletedCount[r] > 0
    /\ pc[p] = "notfound" /\ target[p] = target[r]
    /\ statusCode[p] = 404
    /\ Len(LiveRecords) > 0
    /\ DOMAIN documentStore # {}

\* Every character of s is white space.
IsBlank(s) == \A k \in 1..Len(s) : s[k] = " "

\* t is s without its leading and trailing white space.
IsTrimmed(t, s) ==
  \E i, j \in 1..Len(s) :
    /\ i <= j
    /\ t = SubSeq(s, i, j)
    /\ s[i] # " " /\ s[j] # " "
    /\ \A k \in 1..Len(s) : (k < i \/ k > j) => s[k] = " "

\* C28: a chat request whose question is missing, not a string, or blank
\* after trimming is answered 400 (ValidationError) on arrival, before any
\* search or generation call (it takes no store, the model is not called,
\* and the request makes no further step); any other question is accepted
\* and handed to the pipeline trimmed.
C28_InvalidQuestionRejected ==
  [][\A c \in Chats :
       /\ (pc[c] = "idle" /\ pc'[c] # "idle") =>
            IF requestQuestion'[c].type # "string" \/ IsBlank(requestQuestion'[c].chars)
              THEN /\ pc'[c] = "rejected"
                   /\ statusCode'[c] = 400
                   /\ ref'[c] = NULL
                   /\ ~llmCalled'[c]
                   /\ relevantDocs'[c] = <<>>
              ELSE /\ pc'[c] # "rejected"
                   /\ IsTrimmed(queryArg'[c], requestQuestion'[c].chars)
                   /\ question'[c] = TextId(queryArg'[c])
       /\ pc[c] = "rejected" =>
            (pc'[c] = "rejected" /\ ~llmCalled'[c] /\ statusCode'[c] = 400)
    ]_vars

\* C28 witness: with documents in the index, a question of white space only
\* was rejected.
C28_Witness ==
  \E c \in Chats :
    /\ pc[c] = "rejected"
    /\ requestQuestion[c].type = "string"
    /\ Len(requestQuestion[c].chars) = 2
    /\ statusCode[c] = 400
    /\ Len(LiveRecords) > 0

\* C29: after "New Chat" the conversation shown holds no message of an
\* earlier conversation, whenever the click comes: every message shown
\* belongs to the conversation started by the last click.
C29_NewChatStartsFresh ==
  \A j \in 1..Len(messages) : messages[j].conversation = conversation

\* C30: a search is read-only on the shared state: every step of a
\* similaritySearch or similaritySearchWithScore call, whether it returns
\* results, returns the empty result or fails, leaves the module reference,
\* the flag and the records of the live index as they were, and changes the
\* records of no store.
C30_SearchIsReadOnly ==
  [][\A c \in Chats :
       pc'[c] # pc[c] =>
         /\ vectorStoreInstance' = vectorStoreInstance
         /\ isInitialized' = isInitialized
         /\ LiveRecords' = LiveRecords
         /\ \A b \in Builders :
              \/ stores'[b] = stores[b]
              \/ stores'[b] = <<>> /\ b # vectorStoreInstance
    ]_vars

\* C30 witness: similaritySearchWithScore has returned scored records and
\* the live index holds at least those records.
C30_Witness ==
  \E c \in Chats :
    /\ pc[c] = "done"
    /\ Len(scoredDocs[c]) >= 2
    /\ \A j \in 1..Len(scoredDocs[c]) : scoredDocs[c][j][1] \in SeqToSet(LiveRecords)
====
